---- MODULE Spec2Model ----
(***************************************************************************)
(* Sentiment ingestion pipeline (cfornesa/sentiment-pipeline-node).        *)
(*                                                                         *)
(* The model covers the two ingest/display handler pairs of the            *)
(* repository: app.post('/api/ingest') and app.get('/api/display/:id') of  *)
(* src/index.js, and router.post('/ingest') and router.get('/display/:id') *)
(* of src/routes/sentiment.js.  One process runs one of the two (variable  *)
(* handler).  Every callback of the event loop is one action: a callback   *)
(* runs to completion (or to its next await) before another one starts.    *)
(*                                                                         *)
(* Scores are integers in units of 1/10000, the precision of the compound  *)
(* value of the sentiment analyzer (0.8 is 8000).                          *)
(*                                                                         *)
(* Six specifications share the module.  Spec and SpecDisplay run the      *)
(* server with rows reduced to their score.  SpecRun follows the 'data'    *)
(* and 'end' callbacks of one run statement by statement, on rows with     *)
(* headers and texts.  SpecBin applies the bucket formula to single        *)
(* scores, SpecRedact the redaction of analyzeText to single texts, which  *)
(* are sequences of characters.  SpecContact runs the provision and send   *)
(* handlers of src/routes/contact.js over the contact_identities table.    *)
(***************************************************************************)
EXTENDS Integers, Sequences, FiniteSets, Bags, TLC

(* ---------------------------- bounds ----------------------------------- *)

\* Most rows the CSV parser delivers to one ingestion run.
MaxRows == 2

\* The ingestion requests in flight (two concurrent uploads).
Requests == {"r1", "r2"}

\* The provision and the send requests in flight at the contact routes.
ProvRequests == {"p1", "p2"}

SendRequests == {"s1"}

\* chart_title values a request may carry; "" stands for an absent field.
ChartTitles == {"", "Q3"}

\* Rows as the data handler sees them: whether the selected column holds a
\* non-empty string, and the compound score the analyzer gives its text.
RowSamples ==
    { [hasText |-> FALSE, compound |-> 0],
      [hasText |-> TRUE,  compound |-> 8000] }

(* ------------------------- program constants ---------------------------- *)

\* new Array(11): number of histogram buckets.
NumBins == 11

\* Units of one score point (1.0) in the integer encoding.
ScoreUnit == 10000

(* ------------------------- pure functions ------------------------------- *)

\* analyzeText(text).score: falsy text gives score 0 without calling the
\* analyzer, any other text gives intensity.compound.
analyzeText(row) == IF ~row.hasText THEN 0 ELSE row.compound

\* A variant without the shift of the score range: score * 5.
ScaledUnshifted(score) == score * 5

\* (score + 1) * 5 in units of 1/10000.
Scaled(score) == (score + ScoreUnit) * 5

\* Among the scores with at most four decimals in [-2, 2] the double
\* (score + 1) * 5 lies on the other side of a rounding tie than the exact
\* product for -1.3, -1.1 and -0.9 only: -0.9 + 1 is 0.09999999999999998
\* and the product 0.4999999999999999 (-1.5000000000000002 for -1.3 and
\* -0.5000000000000004 for -1.1).
FpBelowTie(score) == score \in {-13000, -11000, -9000}

\* Math.round((score + 1) * 5): nearest integer, ties toward +infinity,
\* applied to the double product.
MathRound(score) ==
    IF Scaled(score) % ScoreUnit = ScoreUnit \div 2 /\ FpBelowTie(score)
    THEN Scaled(score) \div ScoreUnit
    ELSE (Scaled(score) + ScoreUnit \div 2) \div ScoreUnit

Min(a, b) == IF a < b THEN a ELSE b
Max(a, b) == IF a > b THEN a ELSE b

\* A variant without the clamp: Math.round((score + 1) * 5).
binIndexUnclamped(score) == MathRound(score)

\* Math.min(10, Math.max(0, Math.round((score + 1) * 5)))
binIndex(score) == Min(10, Max(0, MathRound(score)))

\* new Array(11).fill(0)
ZeroBins == [i \in 1..NumBins |-> 0]

IncrBinOverwrite(b, i) == [b EXCEPT ![i + 1] = 1]

IncrBinTwice(b, i) == [b EXCEPT ![i + 1] = @ + 2]

\* bins[binIndex]++  (JavaScript index i is position i + 1 of the sequence)
IncrBin(b, i) == [b EXCEPT ![i + 1] = @ + 1]

\* req.body.chart_title || 'New Analysis'
projectTitle(t) == IF t = "" THEN "New Analysis" ELSE t

RECURSIVE SumSeq(_)
SumSeq(s) == IF s = <<>> THEN 0 ELSE Head(s) + SumSeq(Tail(s))

\* The number of rows in a bag of rows whose score falls in bucket i.
RECURSIVE CountBin(_, _, _)
CountBin(bag, kinds, i) ==
    IF kinds = {} THEN 0
    ELSE LET row == CHOOSE x \in kinds : TRUE
         IN  (IF binIndex(analyzeText(row)) = i THEN CopiesIn(row, bag) ELSE 0)
             + CountBin(bag, kinds \ {row}, i)

\* The histogram of the rows of a whole file.
Hist(bag) == [i \in 1..NumBins |-> CountBin(bag, BagToSet(bag), i - 1)]

\* The bag of rows after one more row.
AddRow(bag, row) == bag (+) SetToBag({row})

(* ------------------------------ state ----------------------------------- *)

VARIABLES
    handler,    \* "index": src/index.js, "router": src/routes/sentiment.js
    isProd,     \* DB_HOST set and not 127.0.0.1 (pool backend), else sqlite
    alive,      \* the node process has not died of an uncaught exception
    dbState,    \* progress of setupDatabase: "unassigned", "opened", "ready"
    store,      \* rows of sentiment_aggregates; the id is the position
    owner,      \* history: the request whose insert wrote each stored row
    pc,         \* per request: position of its handler
    title,      \* per request: projectTitle / title
    rows,       \* history, per request: bag of rows the 'data' events delivered
    bins,       \* per request: the counter array of the handler's closure
    ins,        \* per request: state of its INSERT at the database
    insertId,   \* per request: id the database assigned to its INSERT
    resp,       \* per request: the response the caller received
    sends,      \* per request: number of res.json calls executed
    file,       \* per request: the temporary upload, req.file.path
    disp,       \* outcome of the latest display request
    binning,    \* one evaluation of the bucket formula on one score
    redaction,  \* one evaluation of the redaction on one text
    run,        \* one 'data' callback followed statement by statement
    identities, \* rows of contact_identities; the id is the position
    prov,       \* per provision request: position, locals and response
    snd,        \* per send request: position, locals and response
    inquiries   \* history: the calls of sendInquiry

vars == << handler, isProd, alive, dbState, store, owner, pc, title, rows,
           bins, ins, insertId, resp, sends, file, disp, binning, redaction,
           run, identities, prov, snd, inquiries >>

\* The variables of the single-function specifications; the handlers of the
\* server leave them alone.
fnVars == << binning, redaction, run, identities, prov, snd, inquiries >>

\* The variables of src/routes/contact.js.
contactVars == << identities, prov, snd, inquiries >>

reqVars == << pc, title, rows, bins, ins, insertId, resp, sends, file >>

NoResp == [status |-> 0, success |-> FALSE, id |-> 0, bins |-> <<>>,
           error |-> ""]

\* res.json({ success: true, id, bins })
SuccessResp(id, b) == [status |-> 200, success |-> TRUE, id |-> id,
                       bins |-> b, error |-> ""]

\* res.status(code).json({ error: msg })
ErrorResp(code, msg) == [status |-> code, success |-> FALSE, id |-> 0,
                         bins |-> <<>>, error |-> msg]

NoRow == [id |-> 0, project_title |-> "", bins |-> <<>>]

NoDisplay == [id |-> 0, outcome |-> "none", status |-> 0, row |-> NoRow]

\* Ids a display request may ask for: every id an ingestion can create and
\* one that is never created.
DisplayIds == 1..(Cardinality(Requests) + 1)

\* VALUES (?, ?, ..., ?) with [title, ...bins]: the column project_title and
\* the eleven bucket columns bin_n1_0 .. bin_p1_0 in order.
InsertParamsSwapped(t, b) == [project_title |-> t,
                              bins |-> [i \in 1..NumBins |-> b[NumBins + 1 - i]]]

\* A variant that writes one more column, the number of rows.
InsertParamsWithTotal(t, b) == [project_title |-> t, bins |-> b,
                                total |-> SumSeq(b)]

InsertParams(t, b) == [project_title |-> t, bins |-> b]

\* AUTOINCREMENT / AUTO_INCREMENT: the id of the next inserted row.
NextId(s) == Len(s) + 1

\* Values of the single-function variables while the server runs.
NoBinning == [pc |-> "idle", score |-> 0, binIndex |-> 0, bins |-> <<>>]

NoRedaction == [pc |-> "idle", text |-> <<>>, once |-> <<>>, twice |-> <<>>]

NoRun == [pc |-> "idle"]

\* A contact request that has sent nothing.
NoContactResp == [status |-> 0, kind |-> "", id |-> 0]

\* A row of contact_identities that was not found.
NoIdentity == [email_hash |-> << >>, raw_email |-> << >>,
               recaptcha_secret_key |-> ""]

\* A provision request before its handler runs.
NoProvision == [pc |-> "new", cleanEmail |-> << >>, secretKey |-> "",
                row |-> 0, lastID |-> 0, err |-> FALSE,
                resp |-> NoContactResp, sends |-> 0]

\* A send request before its handler runs.
NoSend == [pc |-> "new", id |-> 0, complete |-> FALSE, row |-> NoIdentity,
           found |-> FALSE, err |-> FALSE, verifiedWith |-> "",
           success |-> FALSE, score |-> 0, resp |-> NoContactResp,
           sends |-> 0]

\* contact.js after its module has loaded and the table was created.
ContactAtRest ==
    /\ identities = << >>
    /\ prov = [p \in ProvRequests |-> NoProvision]
    /\ snd = [q \in SendRequests |-> NoSend]
    /\ inquiries = << >>

InitServer ==
    /\ handler \in {"index", "router"}
    /\ isProd \in BOOLEAN
    /\ handler = "index" => isProd
    /\ alive = TRUE
       \* index.js creates its pool while the module loads; setupDatabase
       \* assigns the pool before its first await, and awaits open() else.
    /\ dbState = IF isProd THEN "ready" ELSE "unassigned"
    /\ store = <<>>
    /\ owner = <<>>
    /\ pc = [r \in Requests |-> "new"]
    /\ title = [r \in Requests |-> ""]
    /\ rows = [r \in Requests |-> EmptyBag]
    /\ bins = [r \in Requests |-> <<>>]
    /\ ins = [r \in Requests |-> "none"]
    /\ insertId = [r \in Requests |-> 0]
    /\ resp = [r \in Requests |-> NoResp]
    /\ sends = [r \in Requests |-> 0]
    /\ file = [r \in Requests |-> "absent"]
    /\ disp = NoDisplay

Init ==
    /\ InitServer
    /\ binning = NoBinning
    /\ redaction = NoRedaction
    /\ run = NoRun
    /\ ContactAtRest

\* A promise rejected with no handler: a warning (the request is left
\* without further steps) or, with the default of newer runtimes, the death
\* of the process.
UnhandledRejection(dies) == alive' = ~dies

(* --------------------------- setupDatabase ------------------------------ *)

\* db = await open({ filename: './sandbox.sqlite', ... })
SetupOpen ==
    /\ alive /\ dbState = "unassigned"
    /\ dbState' = "opened"
    /\ UNCHANGED << handler, isProd, alive, store, owner, disp >>
    /\ UNCHANGED << reqVars, fnVars >>

\* await db.exec(`CREATE TABLE IF NOT EXISTS sentiment_aggregates ...`)
SetupExec ==
    /\ alive /\ dbState = "opened"
    /\ dbState' = "ready"
    /\ UNCHANGED << handler, isProd, alive, store, owner, disp >>
    /\ UNCHANGED << reqVars, fnVars >>

(* ------------------- src/index.js: POST /api/ingest --------------------- *)

envVars == << handler, isProd, dbState, store, owner, disp, fnVars >>

\* The handler up to the registration of the stream callbacks.  Without a
\* file it answers 400 and returns; else it creates the counter array, reads
\* the title and opens the stream over the uploaded file.
IndexIngest(r) ==
    /\ handler = "index" /\ alive /\ pc[r] = "new"
    /\ \E hasFile \in BOOLEAN, chart_title \in ChartTitles :
         IF ~hasFile
         THEN /\ resp' = [resp EXCEPT ![r] =
                             ErrorResp(400, "No CSV file detected.")]
              /\ sends' = [sends EXCEPT ![r] = @ + 1]
              /\ pc' = [pc EXCEPT ![r] = "done"]
              /\ UNCHANGED << title, bins, file >>
         ELSE /\ bins' = [bins EXCEPT ![r] = ZeroBins]
              /\ title' = [title EXCEPT ![r] = projectTitle(chart_title)]
              /\ file' = [file EXCEPT ![r] = "present"]
              /\ pc' = [pc EXCEPT ![r] = "streaming"]
              /\ UNCHANGED << resp, sends >>
    /\ UNCHANGED << rows, ins, insertId, alive >>
    /\ UNCHANGED envVars

\* A variant of the 'data' callback that also writes the counters to the
\* store for every row.
IndexOnDataInserting(r, row) ==
    /\ bins' = [bins EXCEPT ![r] = IncrBin(@, binIndex(analyzeText(row)))]
    /\ rows' = [rows EXCEPT ![r] = AddRow(@, row)]
    /\ ins' = [ins EXCEPT ![r] = "issued"]

\* stream.on('data', (row) => { ... bins[binIndex]++ })
IndexOnData(r, row) ==
    /\ bins' = [bins EXCEPT ![r] = IncrBin(@, binIndex(analyzeText(row)))]
    /\ rows' = [rows EXCEPT ![r] = AddRow(@, row)]
    /\ UNCHANGED ins

IndexData(r) ==
    /\ handler = "index" /\ alive /\ pc[r] = "streaming"
    /\ BagCardinality(rows[r]) < MaxRows
    /\ \E row \in RowSamples : IndexOnData(r, row)
    /\ UNCHANGED << pc, title, insertId, resp, sends, file, alive >>
    /\ UNCHANGED envVars

\* A variant of the 'end' callback that stays registered for a second
\* completion event.
IndexOnEndTwice(r) ==
    /\ ins' = [ins EXCEPT ![r] = "issued"]
    /\ UNCHANGED << pc, file >>

\* stream.on('end', async () => { ... await pool.execute(INSERT ...) : the
\* callback up to its await; the INSERT is handed to the pool.
IndexOnEnd(r) ==
    /\ ins' = [ins EXCEPT ![r] = "issued"]
    /\ pc' = [pc EXCEPT ![r] = "awaitInsert"]
    /\ UNCHANGED file

IndexEnd(r) ==
    /\ handler = "index" /\ alive /\ pc[r] = "streaming"
    /\ IndexOnEnd(r)
    /\ UNCHANGED << title, rows, bins, insertId, resp, sends, alive >>
    /\ UNCHANGED envVars

\* The rest of the 'end' callback once the INSERT has settled: on success
\* res.json(...) then fs.unlinkSync(req.file.path); an exception of either
\* the INSERT or unlinkSync lands in the catch block, which calls
\* res.status(500).json(...).  After a response was sent that second call
\* throws (headers already sent) out of the async callback.
IndexOnInsertSettled(r, unlinkOk) ==
    IF ins[r] = "ok"
    THEN /\ resp' = [resp EXCEPT ![r] = SuccessResp(insertId[r], bins[r])]
         /\ IF unlinkOk
            THEN /\ sends' = [sends EXCEPT ![r] = @ + 1]
                 /\ file' = [file EXCEPT ![r] = "removed"]
                 /\ pc' = [pc EXCEPT ![r] = "done"]
                 /\ UNCHANGED alive
            ELSE /\ sends' = [sends EXCEPT ![r] = @ + 2]
                 /\ pc' = [pc EXCEPT ![r] = "threw"]
                 /\ \E dies \in BOOLEAN : UnhandledRejection(dies)
                 /\ UNCHANGED file
    ELSE /\ resp' = [resp EXCEPT ![r] =
                        ErrorResp(500, "Database Persistence Error")]
         /\ sends' = [sends EXCEPT ![r] = @ + 1]
         /\ pc' = [pc EXCEPT ![r] = "done"]
         /\ UNCHANGED << file, alive >>

IndexAfterInsert(r) ==
    /\ handler = "index" /\ alive /\ pc[r] = "awaitInsert"
    /\ ins[r] \in {"ok", "err"}
    /\ \E unlinkOk \in BOOLEAN : IndexOnInsertSettled(r, unlinkOk)
    /\ UNCHANGED << title, rows, bins, ins, insertId >>
    /\ UNCHANGED envVars

(* --------------- src/routes/sentiment.js: POST /ingest ------------------ *)

\* The handler up to the registration of the stream callbacks.  There is no
\* guard on req.file: without a file, req.file.path throws a TypeError out
\* of the async handler.  The framework either drops the rejected promise
\* ("hang", or "crash" where unhandled rejections end the process) or, in
\* its version 5, answers 500 through its default error handler.
RouterIngest(r) ==
    /\ handler = "router" /\ alive /\ pc[r] = "new"
    /\ \E hasFile \in BOOLEAN, chart_title \in ChartTitles :
         IF ~hasFile
         THEN \E outcome \in {"hang", "crash", "express5"} :
              /\ resp' = [resp EXCEPT ![r] =
                             IF outcome = "express5"
                             THEN ErrorResp(500, "Internal Server Error")
                             ELSE @]
              /\ pc' = [pc EXCEPT ![r] = "threw"]
              /\ alive' = (outcome # "crash")
              /\ UNCHANGED << title, bins, file >>
         ELSE /\ bins' = [bins EXCEPT ![r] = ZeroBins]
              /\ title' = [title EXCEPT ![r] = projectTitle(chart_title)]
              /\ file' = [file EXCEPT ![r] = "present"]
              /\ pc' = [pc EXCEPT ![r] = "streaming"]
              /\ UNCHANGED << alive, resp >>
    /\ UNCHANGED << rows, ins, insertId, sends >>
    /\ UNCHANGED envVars

\* A variant of the 'data' callback whose counter array is shared by all
\* requests (a module-level array).
RouterOnDataShared(r, row) ==
    /\ bins' = [q \in Requests |->
                   IF bins[q] = <<>> THEN bins[q]
                   ELSE IncrBin(bins[q], binIndex(analyzeText(row)))]
    /\ rows' = [rows EXCEPT ![r] = AddRow(@, row)]
    /\ UNCHANGED ins

\* stream.on('data', (row) => { ... bins[binIndex]++ })
RouterOnData(r, row) ==
    /\ bins' = [bins EXCEPT ![r] = IncrBin(@, binIndex(analyzeText(row)))]
    /\ rows' = [rows EXCEPT ![r] = AddRow(@, row)]
    /\ UNCHANGED ins

RouterData(r) ==
    /\ handler = "router" /\ alive /\ pc[r] = "streaming"
    /\ BagCardinality(rows[r]) < MaxRows
    /\ \E row \in RowSamples : RouterOnData(r, row)
    /\ UNCHANGED << pc, title, insertId, resp, sends, file, alive >>
    /\ UNCHANGED envVars

\* A variant of the 'end' callback that removes the temporary file before
\* the INSERT.
RouterOnEndUnlinking(r, dies) ==
    IF dbState = "unassigned"
    THEN /\ pc' = [pc EXCEPT ![r] = "threw"]
         /\ UnhandledRejection(dies)
         /\ UNCHANGED << ins, file >>
    ELSE /\ ins' = [ins EXCEPT ![r] = "issued"]
         /\ pc' = [pc EXCEPT ![r] = "awaitInsert"]
         /\ file' = [file EXCEPT ![r] = "removed"]
         /\ UNCHANGED alive

\* stream.on('end', async () => { ... await db.execute / db.run(sql, params)
\* : the callback up to its await.  While db is still unassigned the call
\* throws a TypeError out of the async callback.
RouterOnEnd(r, dies) ==
    IF dbState = "unassigned"
    THEN /\ pc' = [pc EXCEPT ![r] = "threw"]
         /\ UnhandledRejection(dies)
         /\ UNCHANGED << ins, file >>
    ELSE /\ ins' = [ins EXCEPT ![r] = "issued"]
         /\ pc' = [pc EXCEPT ![r] = "awaitInsert"]
         /\ UNCHANGED << alive, file >>

RouterEnd(r) ==
    /\ handler = "router" /\ alive /\ pc[r] = "streaming"
    /\ \E dies \in BOOLEAN : RouterOnEnd(r, dies)
    /\ UNCHANGED << title, rows, bins, insertId, resp, sends >>
    /\ UNCHANGED envVars

\* The rest of the 'end' callback once the INSERT has settled.  There is no
\* try/catch: a rejected INSERT, or an exception of unlinkSync, leaves the
\* async callback as a rejected promise.
RouterOnInsertSettled(r, unlinkOk, dies) ==
    IF ins[r] = "ok"
    THEN /\ resp' = [resp EXCEPT ![r] = SuccessResp(insertId[r], bins[r])]
         /\ sends' = [sends EXCEPT ![r] = @ + 1]
         /\ IF unlinkOk
            THEN /\ file' = [file EXCEPT ![r] = "removed"]
                 /\ pc' = [pc EXCEPT ![r] = "done"]
                 /\ UNCHANGED alive
            ELSE /\ pc' = [pc EXCEPT ![r] = "threw"]
                 /\ UnhandledRejection(dies)
                 /\ UNCHANGED file
    ELSE /\ pc' = [pc EXCEPT ![r] = "threw"]
         /\ UnhandledRejection(dies)
         /\ UNCHANGED << resp, sends, file >>

RouterAfterInsert(r) ==
    /\ handler = "router" /\ alive /\ pc[r] = "awaitInsert"
    /\ ins[r] \in {"ok", "err"}
    /\ \E unlinkOk \in BOOLEAN, dies \in BOOLEAN :
         RouterOnInsertSettled(r, unlinkOk, dies)
    /\ UNCHANGED << title, rows, bins, ins, insertId >>
    /\ UNCHANGED envVars

(* ------------------------ stream and database --------------------------- *)

\* The read stream or the parser emits 'error'.  Neither handler registers
\* an 'error' listener, so the event is thrown as an uncaught exception and
\* the process ends; no callback of any request runs afterwards.
StreamError(r) ==
    /\ alive /\ pc[r] = "streaming"
    /\ pc' = [pc EXCEPT ![r] = "streamError"]
    /\ alive' = FALSE
    /\ UNCHANGED << title, rows, bins, ins, insertId, resp, sends, file >>
    /\ UNCHANGED envVars

\* The database executes an INSERT handed to it: it either adds one row and
\* reports its id, or fails and adds nothing.
DbInsert(r) ==
    /\ alive /\ ins[r] = "issued"
    /\ \E ok \in BOOLEAN :
         IF ok
         THEN /\ store' = Append(store, InsertParams(title[r], bins[r]))
              /\ owner' = Append(owner, r)
              /\ insertId' = [insertId EXCEPT ![r] = NextId(store)]
              /\ ins' = [ins EXCEPT ![r] = "ok"]
         ELSE /\ ins' = [ins EXCEPT ![r] = "err"]
              /\ UNCHANGED << store, owner, insertId >>
    /\ UNCHANGED << pc, title, rows, bins, resp, sends, file >>
    /\ UNCHANGED << handler, isProd, alive, dbState, disp, fnVars >>

(* ----------------------------- display ---------------------------------- *)

\* SELECT * FROM sentiment_aggregates WHERE id = ? : the matching rows.
Select(s, id) ==
    IF id \in 1..Len(s)
    THEN << [id |-> id, project_title |-> s[id].project_title,
             bins |-> s[id].bins] >>
    ELSE << >>

\* A variant that answers an unknown id with a zero-filled record.
DisplayResultZeroFilled(id, found) ==
    IF Len(found) = 0
    THEN [id |-> id, outcome |-> "row", status |-> 200,
          row |-> [id |-> id, project_title |-> "", bins |-> ZeroBins]]
    ELSE [id |-> id, outcome |-> "row", status |-> 200, row |-> found[1]]

\* if (rows.length === 0) return res.status(404).json(...); res.json(rows[0])
\* and: if (!row) return res.status(404).json(...); res.json(row)
DisplayResult(id, found) ==
    IF Len(found) = 0
    THEN [id |-> id, outcome |-> "notfound", status |-> 404, row |-> NoRow]
    ELSE [id |-> id, outcome |-> "row", status |-> 200, row |-> found[1]]

\* app.get('/api/display/:id'): the query either succeeds, or fails and is
\* caught and answered 500.
IndexDisplay ==
    /\ handler = "index" /\ alive
    /\ \E id \in DisplayIds :
         \/ disp' = DisplayResult(id, Select(store, id))
         \/ disp' = [id |-> id, outcome |-> "error", status |-> 500,
                     row |-> NoRow]
    /\ UNCHANGED << handler, isProd, alive, dbState, store, owner >>
    /\ UNCHANGED << reqVars, fnVars >>

\* router.get('/display/:id'): no try/catch.  The query succeeds once db is
\* assigned; a failed query, or db still unassigned, rejects the promise of
\* the async handler, with the outcomes described at RouterIngest.
RouterDisplay ==
    /\ handler = "router" /\ alive
    /\ \E id \in DisplayIds :
         \/ /\ dbState # "unassigned"
            /\ disp' = DisplayResult(id, Select(store, id))
            /\ UNCHANGED alive
         \/ \E outcome \in {"hang", "crash", "express5"} :
              /\ disp' = IF outcome = "express5"
                         THEN [id |-> id, outcome |-> "error",
                               status |-> 500, row |-> NoRow]
                         ELSE [id |-> id, outcome |-> "noresponse",
                               status |-> 0, row |-> NoRow]
              /\ alive' = (outcome # "crash")
    /\ UNCHANGED << handler, isProd, dbState, store, owner >>
    /\ UNCHANGED << reqVars, fnVars >>

(* ------------------------- specification -------------------------------- *)

\* The ingestion pipeline alone.
Next ==
    \/ SetupOpen
    \/ SetupExec
    \/ \E r \in Requests : IndexIngest(r)
    \/ \E r \in Requests : IndexData(r)
    \/ \E r \in Requests : IndexEnd(r)
    \/ \E r \in Requests : IndexAfterInsert(r)
    \/ \E r \in Requests : RouterIngest(r)
    \/ \E r \in Requests : RouterData(r)
    \/ \E r \in Requests : RouterEnd(r)
    \/ \E r \in Requests : RouterAfterInsert(r)
    \/ \E r \in Requests : StreamError(r)
    \/ \E r \in Requests : DbInsert(r)

Spec == Init /\ [][Next]_vars

\* Ingestion interleaved with display requests.
NextDisplay ==
    \/ Next
    \/ IndexDisplay
    \/ RouterDisplay

SpecDisplay == Init /\ [][NextDisplay]_vars

(* ---------------- the bucket formula on a single score ------------------ *)

\* Largest magnitude of a score the bucket formula is applied to, in units
\* of 1/10000: the contract of the analyzer is [-1, 1], the formula is also
\* applied beyond it.
MaxScore == 13000

Scores == (0 - MaxScore)..MaxScore

\* The variables of the server.
pipelineVars == << handler, isProd, alive, dbState, store, owner, disp,
                   reqVars >>

serverVars == << pipelineVars, contactVars >>

\* The server at rest, as the single-function specifications keep it.
ServerAtRest == InitServer /\ handler = "index" /\ ContactAtRest

\* const bins = new Array(11).fill(0) and one analysis.score.
InitBin ==
    /\ ServerAtRest
    /\ redaction = NoRedaction
    /\ run = NoRun
    /\ \E s \in Scores :
         binning = [pc |-> "scored", score |-> s, binIndex |-> 0,
                    bins |-> ZeroBins]

\* const binIndex = Math.min(10, Math.max(0, Math.round((score + 1) * 5)));
\* bins[binIndex]++;
BinScore ==
    /\ binning.pc = "scored"
    /\ binning' = [binning EXCEPT !.pc = "binned",
                                  !.binIndex = binIndex(binning.score),
                                  !.bins = IncrBin(@, binIndex(binning.score))]
    /\ UNCHANGED << serverVars, redaction, run >>

NextBin == BinScore

SpecBin == InitBin /\ [][NextBin]_vars

(* ---------------- src/unnamed/part_003: the redaction ------------------- *)

\* A text is a sequence of one-character strings.
Lower == {"a", "b", "c", "d", "e", "f", "g", "h", "i", "j", "k", "l", "m",
          "n", "o", "p", "q", "r", "s", "t", "u", "v", "w", "x", "y", "z"}

Upper == {"A", "B", "C", "D", "E", "F", "G", "H", "I", "J", "K", "L", "M",
          "N", "O", "P", "Q", "R", "S", "T", "U", "V", "W", "X", "Y", "Z"}

\* [a-z] under the flag i
Letter == Lower \cup Upper

\* \d
Digit == {"0", "1", "2", "3", "4", "5", "6", "7", "8", "9"}

\* [a-z0-9._%+-] under the flag i
EmailLocalChar == Letter \cup Digit \cup {".", "_", "%", "+", "-"}

\* [a-z0-9.-] under the flag i
EmailDomainChar == Letter \cup Digit \cup {".", "-"}

\* \w, the characters \b tells apart from the others
WordChar == Letter \cup Digit \cup {"_"}

\* '[EMAIL]'
EmailMark == << "[", "E", "M", "A", "I", "L", "]" >>

\* '[PHONE]'
PhoneMark == << "[", "P", "H", "O", "N", "E", "]" >>

MaxOf(S) == CHOOSE x \in S : \A y \in S : y <= x

MinOf(S) == CHOOSE x \in S : \A y \in S : x <= y

\* A greedy character class: the position after the longest run of
\* characters of cls that starts at position i.
RECURSIVE RunEnd(_, _, _)
RunEnd(s, i, cls) ==
    IF i <= Len(s) /\ s[i] \in cls THEN RunEnd(s, i + 1, cls) ELSE i

\* /[a-z0-9._%+-]+@[a-z0-9.-]+\.[a-z]{2,}/i tried at position i: the
\* position after the match, 0 without a match.  The local part is the
\* whole run before the '@'; the domain backs off from its longest run to
\* the last '.' that two letters follow; the last part takes every letter.
EmailEnd(s, i) ==
    LET k == RunEnd(s, i, EmailLocalChar)
    IN  IF k = i \/ k > Len(s) \/ s[k] # "@" THEN 0
        ELSE LET m == RunEnd(s, k + 1, EmailDomainChar)
                 dots == { d \in (k + 2)..(m - 1) :
                             /\ s[d] = "."
                             /\ d + 2 <= Len(s)
                             /\ s[d + 1] \in Letter
                             /\ s[d + 2] \in Letter }
             IN  IF dots = {} THEN 0
                 ELSE RunEnd(s, MaxOf(dots) + 1, Letter)

\* text.replace(/.../gi, '[EMAIL]') from position i on: every match, left
\* to right, without overlap.
RECURSIVE ReplaceEmailFrom(_, _)
ReplaceEmailFrom(s, i) ==
    IF i > Len(s) THEN << >>
    ELSE IF EmailEnd(s, i) = 0
         THEN << s[i] >> \o ReplaceEmailFrom(s, i + 1)
         ELSE EmailMark \o ReplaceEmailFrom(s, EmailEnd(s, i))

\* A variant without the flag g: the first match only is replaced.
ReplaceEmailFirst(s) ==
    LET starts == { i \in 1..Len(s) : EmailEnd(s, i) # 0 }
    IN  IF starts = {} THEN s
        ELSE SubSeq(s, 1, MinOf(starts) - 1) \o EmailMark
             \o SubSeq(s, EmailEnd(s, MinOf(starts)), Len(s))

\* text.replace(/[a-z0-9._%+-]+@[a-z0-9.-]+\.[a-z]{2,}/gi, '[EMAIL]')
ReplaceEmail(s) == ReplaceEmailFrom(s, 1)

IsWordAt(s, p) == p \in 1..Len(s) /\ s[p] \in WordChar

\* \b before position i
WordBoundary(s, i) == IsWordAt(s, i - 1) # IsWordAt(s, i)

\* \d{n} at position j
DigitsAt(s, j, n) ==
    j + n - 1 <= Len(s) /\ \A p \in j..(j + n - 1) : s[p] \in Digit

\* [-.]? at position j: the position after it
SkipSep(s, j) == IF j <= Len(s) /\ s[j] \in {"-", "."} THEN j + 1 ELSE j

\* /\b\d{3}[-.]?\d{3}[-.]?\d{4}\b/ tried at position i: the position after
\* the match, 0 without a match.
PhoneEnd(s, i) ==
    LET b == SkipSep(s, i + 3)
        c == SkipSep(s, b + 3)
    IN  IF /\ WordBoundary(s, i)
           /\ DigitsAt(s, i, 3)
           /\ DigitsAt(s, b, 3)
           /\ DigitsAt(s, c, 4)
           /\ WordBoundary(s, c + 4)
        THEN c + 4 ELSE 0

RECURSIVE ReplacePhoneFrom(_, _)
ReplacePhoneFrom(s, i) ==
    IF i > Len(s) THEN << >>
    ELSE IF PhoneEnd(s, i) = 0
         THEN << s[i] >> \o ReplacePhoneFrom(s, i + 1)
         ELSE PhoneMark \o ReplacePhoneFrom(s, PhoneEnd(s, i))

\* .replace(/\b\d{3}[-.]?\d{3}[-.]?\d{4}\b/g, '[PHONE]')
ReplacePhone(s) == ReplacePhoneFrom(s, 1)

\* const redacted = text.replace(<email>, '[EMAIL]').replace(<phone>, '[PHONE]')
redacted(text) == ReplacePhone(ReplaceEmail(text))

(* ----------------- the redaction on a single text ----------------------- *)

\* Most pieces a text is put together from.
MaxChunks == 4

\* The pieces: single characters that make and break matches, an address,
\* and digit groups that are, or are not, a phone number.
TextChunks ==
    { << "a" >>, << "@" >>, << "." >>, << " " >>, << "_" >>,
      << "5", "5", "5" >>,
      << "a", "@", "b", ".", "c", "o" >>,
      << "5", "5", "5", "1", "2", "3", "4", "5", "6", "7" >>,
      << "5", "5", "5", "-", "5", "5", "5", ".", "1", "2", "3", "4" >> }

\* The texts of n pieces.
RECURSIVE TextsOf(_)
TextsOf(n) ==
    IF n = 0 THEN { << >> }
    ELSE { t \o c : t \in TextsOf(n - 1), c \in TextChunks }

Texts == UNION { TextsOf(n) : n \in 0..MaxChunks }

InitRedact ==
    /\ ServerAtRest
    /\ binning = NoBinning
    /\ run = NoRun
    /\ \E t \in Texts :
         redaction = [pc |-> "raw", text |-> t, once |-> << >>,
                      twice |-> << >>]

\* The redaction applied to the text.
RedactOnce ==
    /\ redaction.pc = "raw"
    /\ redaction' = [redaction EXCEPT !.pc = "once",
                                      !.once = redacted(redaction.text)]
    /\ UNCHANGED << serverVars, binning, run >>

\* The redaction applied to its own output.
RedactAgain ==
    /\ redaction.pc = "once"
    /\ redaction' = [redaction EXCEPT !.pc = "twice",
                                      !.twice = redacted(redaction.once)]
    /\ UNCHANGED << serverVars, binning, run >>

NextRedact ==
    \/ RedactOnce
    \/ RedactAgain

SpecRedact == InitRedact /\ [][NextRedact]_vars

(* ----- the 'data' and 'end' callbacks of one run, statement by statement ---- *)

\* Most rows delivered to the run that is followed statement by statement.
MaxRunRows == 3

\* Values of the language: strings (sequences of characters), undefined,
\* functions and objects.
Str(chars) == [type |-> "string", chars |-> chars]

Undefined == [type |-> "undefined", chars |-> << >>]

FunctionValue == [type |-> "function", chars |-> << >>]

ObjectValue == [type |-> "object", chars |-> << >>]

\* The truth value of v in a condition: undefined and '' are falsy.
Truthy(v) ==
    \/ v.type \in {"function", "object"}
    \/ v.type = "string" /\ v.chars # << >>

Alphabet == << "a", "b", "c", "d", "e", "f", "g", "h", "i", "j", "k", "l",
               "m", "n", "o", "p", "q", "r", "s", "t", "u", "v", "w", "x",
               "y", "z" >>

Capitals == << "A", "B", "C", "D", "E", "F", "G", "H", "I", "J", "K", "L",
               "M", "N", "O", "P", "Q", "R", "S", "T", "U", "V", "W", "X",
               "Y", "Z" >>

\* A variant that leaves the name as it is written.
toLowerCaseOmitted(s) == s

\* String.prototype.toLowerCase on the characters of s
toLowerCase(s) ==
    [i \in 1..Len(s) |->
        IF \E n \in 1..26 : Capitals[n] = s[i]
        THEN Alphabet[CHOOSE n \in 1..26 : Capitals[n] = s[i]]
        ELSE s[i]]

\* (req.body.post_column || 'post').toLowerCase()
postCol(post_column) ==
    toLowerCase(IF Truthy(post_column) THEN post_column.chars
                ELSE << "p", "o", "s", "t" >>)

\* Object.keys(row).reduce((acc, k) => { acc[k.toLowerCase()] = row[k];
\* return acc; }, {}): the own properties of the result; a later key
\* overwrites an earlier one of the same lowercased name.
normalized(row) ==
    [key \in { toLowerCase(row[i].k) : i \in 1..Len(row) } |->
        row[MaxOf({ i \in 1..Len(row) : toLowerCase(row[i].k) = key })].v]

\* Properties every object literal inherits from Object.prototype.
ObjectPrototype ==
    [name \in { << "c", "o", "n", "s", "t", "r", "u", "c", "t", "o", "r" >>,
                << "t", "o", "S", "t", "r", "i", "n", "g" >>,
                << "_", "_", "p", "r", "o", "t", "o", "_", "_" >> } |->
        IF name = << "_", "_", "p", "r", "o", "t", "o", "_", "_" >>
        THEN ObjectValue ELSE FunctionValue]

\* obj[key] of an object literal: its own property, else the inherited one,
\* else undefined.
GetProperty(obj, key) ==
    IF key \in DOMAIN obj THEN Str(obj[key])
    ELSE IF key \in DOMAIN ObjectPrototype THEN ObjectPrototype[key]
    ELSE Undefined

\* v || ''
OrEmpty(v) == IF Truthy(v) THEN v ELSE Str(<< >>)

\* post_column values of a request; Undefined when the field is absent.
PostColumns ==
    { Undefined,
      Str(<< "p", "o", "s", "t" >>),
      Str(<< "P", "o", "s", "t" >>),
      Str(<< "P", "O", "S", "T" >>),
      Str(<< "t", "e", "x", "t" >>),
      Str(<< "c", "o", "n", "s", "t", "r", "u", "c", "t", "o", "r" >>) }

\* Column headers of an uploaded file.
Headers ==
    { << "p", "o", "s", "t" >>, << "P", "o", "s", "t" >>,
      << "P", "O", "S", "T" >>, << "p", "O", "s", "T" >>,
      << "T", "e", "x", "t" >>, << "i", "d" >> }

\* Cell values of an uploaded file.
CellValues ==
    { << >>,
      << "H", "i" >>,
      << "a", "@", "b", ".", "c", "o" >>,
      << "H", "i", " ", "5", "5", "5", "1", "2", "3", "4", "5", "6", "7" >> }

\* Rows as the CSV parser delivers them: the columns in file order.
RunRows ==
    { << [k |-> h, v |-> x] >> : h \in Headers, x \in CellValues }
    \cup { << [k |-> << "i", "d" >>, v |-> << "7" >>],
              [k |-> << "P", "o", "s", "t" >>, v |-> << "H", "i" >>] >>,
           << [k |-> << "P", "O", "S", "T" >>, v |-> << "H", "i" >>],
              [k |-> << "T", "e", "x", "t" >>,
               v |-> << "a", "@", "b", ".", "c", "o" >>] >> }

\* Compound scores the analyzer may return for a text.
ScoreSamples == {0 - 8000, 0, 8000}

\* The text holds an address or a phone number as the two patterns of the
\* redaction find them.
HasPII(t) == \E i \in 1..Len(t) : EmailEnd(t, i) # 0 \/ PhoneEnd(t, i) # 0

\* The insert parameters before the 'end' callback has built them.
NoParams == [project_title |-> "", bins |-> << >>]

InitRun ==
    /\ ServerAtRest
    /\ binning = NoBinning
    /\ redaction = NoRedaction
    /\ \E post_column \in PostColumns, chart_title \in ChartTitles :
         run = [pc |-> "new", post_column |-> post_column,
                chart_title |-> chart_title, postCol |-> << >>,
                title |-> "", bins |-> << >>, held |-> << >>,
                text |-> Undefined, redacted |-> << >>,
                vaderCalls |-> << >>, score |-> 0, scores |-> << >>,
                piiSeen |-> FALSE, params |-> NoParams]

\* const bins = new Array(11).fill(0); const postCol = ...; const title = ...
RunIngest ==
    /\ run.pc = "new"
    /\ run' = [run EXCEPT !.pc = "streaming",
                          !.bins = ZeroBins,
                          !.postCol = postCol(run.post_column),
                          !.title = projectTitle(run.chart_title)]
    /\ UNCHANGED << serverVars, binning, redaction >>

\* stream.on('data', (row) => { const normalized = ...;
\* const text = normalized[postCol] || '';
RunOnData ==
    /\ run.pc = "streaming"
    /\ Len(run.scores) < MaxRunRows
    /\ \E row \in RunRows :
         run' = [run EXCEPT !.pc = "selected",
                            !.held = Append(@, row),
                            !.text = OrEmpty(GetProperty(normalized(row),
                                                         run.postCol))]
    /\ UNCHANGED << serverVars, binning, redaction >>

\* analyzeText: if (!text || typeof text !== 'string')
\*                  return { score: 0, redacted: "" };
RunGuard ==
    /\ run.pc = "selected"
    /\ ~Truthy(run.text) \/ run.text.type # "string"
    /\ run' = [run EXCEPT !.pc = "scored", !.score = 0, !.redacted = << >>]
    /\ UNCHANGED << serverVars, binning, redaction >>

\* analyzeText: const redacted = text.replace(...).replace(...)
RunRedact ==
    /\ run.pc = "selected"
    /\ Truthy(run.text) /\ run.text.type = "string"
    /\ run' = [run EXCEPT !.pc = "redacted",
                          !.redacted = redacted(run.text.chars),
                          !.piiSeen = @ \/ HasPII(run.text.chars)]
    /\ UNCHANGED << serverVars, binning, redaction >>

\* A variant that hands the text of the row to the analyzer.
RunScoreRaw ==
    /\ run.pc = "redacted"
    /\ \E compound \in ScoreSamples :
         run' = [run EXCEPT !.pc = "scored",
                            !.vaderCalls = Append(@, run.text.chars),
                            !.score = compound]
    /\ UNCHANGED << serverVars, binning, redaction >>

\* analyzeText: const intensity = vader...polarity_scores(redacted);
\* return { score: intensity.compound, redacted }
RunScore ==
    /\ run.pc = "redacted"
    /\ \E compound \in ScoreSamples :
         run' = [run EXCEPT !.pc = "scored",
                            !.vaderCalls = Append(@, run.redacted),
                            !.score = compound]
    /\ UNCHANGED << serverVars, binning, redaction >>

\* A variant of the callback that keeps every row it has seen.
RunBinKeepingRows ==
    /\ run.pc = "scored"
    /\ run' = [run EXCEPT !.pc = "streaming",
                          !.bins = IncrBin(@, binIndex(run.score)),
                          !.scores = Append(@, run.score),
                          !.text = Undefined,
                          !.redacted = << >>,
                          !.vaderCalls = << >>,
                          !.score = 0]
    /\ UNCHANGED << serverVars, binning, redaction >>

\* const binIndex = Math.min(...); bins[binIndex]++; }) : the callback
\* returns, and with it its row and the other locals are gone.
RunBin ==
    /\ run.pc = "scored"
    /\ run' = [run EXCEPT !.pc = "streaming",
                          !.bins = IncrBin(@, binIndex(run.score)),
                          !.scores = Append(@, run.score),
                          !.held = << >>,
                          !.text = Undefined,
                          !.redacted = << >>,
                          !.vaderCalls = << >>,
                          !.score = 0]
    /\ UNCHANGED << serverVars, binning, redaction >>

\* stream.on('end', ...): const params = [title, ...bins]
RunOnEnd ==
    /\ run.pc = "streaming"
    /\ run' = [run EXCEPT !.pc = "ended",
                          !.params = InsertParams(run.title, run.bins)]
    /\ UNCHANGED << serverVars, binning, redaction >>

NextRun ==
    \/ RunIngest
    \/ RunOnData
    \/ RunGuard
    \/ RunRedact
    \/ RunScore
    \/ RunBin
    \/ RunOnEnd

SpecRun == InitRun /\ [][NextRun]_vars

(* ------------- src/routes/contact.js: provision and send ---------------- *)

\* email fields of provision requests: spellings of one address and another
\* address.
EmailSamples ==
    { << "a", "@", "b", ".", "c", "o" >>,
      << "A", "@", "B", ".", "c", "o" >>,
      << " ", "a", "@", "b", ".", "c", "o", " " >>,
      << "c", "@", "d", ".", "c", "o" >> }

\* secretKey fields of provision requests.
SecretKeys == {"k1", "k2"}

\* id fields of send requests; 0 stands for an absent field, and the last
\* id is never assigned.
SendIds == 0..(Cardinality(ProvRequests) + 1)

\* Scores of a reCAPTCHA verdict, in tenths.
CaptchaScores == {3, 5, 9}

\* The threshold 0.5 of a verdict, in tenths.
MinScoreTenths == 5

WhiteSpace == {" "}

RECURSIVE trimStart(_)
trimStart(s) ==
    IF s # << >> /\ Head(s) \in WhiteSpace THEN trimStart(Tail(s)) ELSE s

RECURSIVE trimEnd(_)
trimEnd(s) ==
    IF s # << >> /\ s[Len(s)] \in WhiteSpace
    THEN trimEnd(SubSeq(s, 1, Len(s) - 1)) ELSE s

\* String.prototype.trim
trim(s) == trimEnd(trimStart(s))

\* const cleanEmail = email.toLowerCase().trim()
cleanEmail(email) == trim(toLowerCase(email))

\* res.status(code).json(...) / res.json(...) of a contact route
ContactResp(code, kind, id) == [status |-> code, kind |-> kind, id |-> id]

\* SELECT id FROM contact_identities WHERE email_hash = ? : the id of the
\* row, 0 without a row.
SelectIdByHash(t, hash) ==
    IF \E id \in 1..Len(t) : t[id].email_hash = hash
    THEN CHOOSE id \in 1..Len(t) : t[id].email_hash = hash
    ELSE 0

\* router.post('/provision'): the handler up to await axios.post(verifyUrl).
ProvisionReceive(p) ==
    /\ prov[p].pc = "new"
    /\ \E email \in EmailSamples \cup { << >> }, complete \in BOOLEAN,
          secretKey \in SecretKeys :
         IF email = << >> \/ ~complete
         THEN prov' = [prov EXCEPT ![p].pc = "done",
                                   ![p].resp = ContactResp(400, "error", 0),
                                   ![p].sends = @ + 1]
         ELSE prov' = [prov EXCEPT ![p].pc = "awaitCaptcha",
                                   ![p].cleanEmail = cleanEmail(email),
                                   ![p].secretKey = secretKey]
    /\ UNCHANGED << pipelineVars, binning, redaction, run, identities, snd,
                    inquiries >>

\* The verification with the secret of the hub has settled: a rejected
\* request lands in the catch block, a verdict without success or below the
\* threshold is answered 403, else db.get(SELECT id ...) is issued.
ProvisionCaptcha(p) ==
    /\ prov[p].pc = "awaitCaptcha"
    /\ \E rejected \in BOOLEAN, success \in BOOLEAN, score \in CaptchaScores :
         IF rejected
         THEN prov' = [prov EXCEPT ![p].pc = "done",
                                   ![p].resp = ContactResp(500, "error", 0),
                                   ![p].sends = @ + 1]
         ELSE IF ~success \/ score < MinScoreTenths
         THEN prov' = [prov EXCEPT ![p].pc = "done",
                                   ![p].resp = ContactResp(403, "error", 0),
                                   ![p].sends = @ + 1]
         ELSE prov' = [prov EXCEPT ![p].pc = "selectIssued"]
    /\ UNCHANGED << pipelineVars, binning, redaction, run, identities, snd,
                    inquiries >>

\* The database executes the SELECT of a provision request.
DbSelectIdentity(p) ==
    /\ prov[p].pc = "selectIssued"
    /\ \E ok \in BOOLEAN :
         prov' = [prov EXCEPT ![p].pc = "selectDone",
                              ![p].err = ~ok,
                              ![p].row = IF ok
                                         THEN SelectIdByHash(identities,
                                                  prov[p].cleanEmail)
                                         ELSE 0]
    /\ UNCHANGED << pipelineVars, binning, redaction, run, identities, snd,
                    inquiries >>

\* The callback of db.get: an error is answered 500, a row is answered
\* "existing" with its id, else the INSERT is issued (stmt.run).
ProvisionOnRow(p) ==
    /\ prov[p].pc = "selectDone"
    /\ IF prov[p].err
       THEN prov' = [prov EXCEPT ![p].pc = "done",
                                 ![p].resp = ContactResp(500, "error", 0),
                                 ![p].sends = @ + 1]
       ELSE IF prov[p].row # 0
       THEN prov' = [prov EXCEPT ![p].pc = "done",
                                 ![p].resp = ContactResp(200, "existing",
                                                         prov[p].row),
                                 ![p].sends = @ + 1]
       ELSE prov' = [prov EXCEPT ![p].pc = "insertIssued"]
    /\ UNCHANGED << pipelineVars, binning, redaction, run, identities, snd,
                    inquiries >>

\* A variant of the table without the UNIQUE constraint on email_hash.
DbInsertIdentityNotUnique(p) ==
    /\ prov[p].pc = "insertIssued"
    /\ \E ok \in BOOLEAN :
         IF ok
         THEN /\ identities' =
                    Append(identities,
                           [email_hash |-> prov[p].cleanEmail,
                            raw_email |-> prov[p].cleanEmail,
                            recaptcha_secret_key |-> prov[p].secretKey])
              /\ prov' = [prov EXCEPT ![p].pc = "insertDone",
                                      ![p].err = FALSE,
                                      ![p].lastID = Len(identities) + 1]
         ELSE /\ prov' = [prov EXCEPT ![p].pc = "insertDone",
                                      ![p].err = TRUE]
              /\ UNCHANGED identities
    /\ UNCHANGED << pipelineVars, binning, redaction, run, snd, inquiries >>

\* The database executes the INSERT of a provision request: it fails when a
\* row with the email_hash exists (email_hash TEXT UNIQUE) or for another
\* reason, else it adds the row and reports its id.
DbInsertIdentity(p) ==
    /\ prov[p].pc = "insertIssued"
    /\ \E ok \in BOOLEAN :
         IF ok /\ SelectIdByHash(identities, prov[p].cleanEmail) = 0
         THEN /\ identities' =
                    Append(identities,
                           [email_hash |-> prov[p].cleanEmail,
                            raw_email |-> prov[p].cleanEmail,
                            recaptcha_secret_key |-> prov[p].secretKey])
              /\ prov' = [prov EXCEPT ![p].pc = "insertDone",
                                      ![p].err = FALSE,
                                      ![p].lastID = Len(identities) + 1]
         ELSE /\ prov' = [prov EXCEPT ![p].pc = "insertDone",
                                      ![p].err = TRUE]
              /\ UNCHANGED identities
    /\ UNCHANGED << pipelineVars, binning, redaction, run, snd, inquiries >>

\* The callback of stmt.run: an error is answered 500, else "new" with
\* this.lastID.
ProvisionOnInsert(p) ==
    /\ prov[p].pc = "insertDone"
    /\ IF prov[p].err
       THEN prov' = [prov EXCEPT ![p].pc = "done",
                                 ![p].resp = ContactResp(500, "error", 0),
                                 ![p].sends = @ + 1]
       ELSE prov' = [prov EXCEPT ![p].pc = "done",
                                 ![p].resp = ContactResp(200, "new",
                                                         prov[p].lastID),
                                 ![p].sends = @ + 1]
    /\ UNCHANGED << pipelineVars, binning, redaction, run, identities, snd,
                    inquiries >>

\* router.post('/send'): the handler up to db.get(SELECT raw_email, ...).
SendReceive(q) ==
    /\ snd[q].pc = "new"
    /\ \E id \in SendIds, complete \in BOOLEAN :
         IF id = 0 \/ ~complete
         THEN snd' = [snd EXCEPT ![q].pc = "done",
                                 ![q].id = id,
                                 ![q].resp = ContactResp(400, "error", 0),
                                 ![q].sends = @ + 1]
         ELSE snd' = [snd EXCEPT ![q].pc = "selectIssued",
                                 ![q].id = id,
                                 ![q].complete = TRUE]
    /\ UNCHANGED << pipelineVars, binning, redaction, run, identities, prov,
                    inquiries >>

\* The database executes the SELECT of a send request.
DbSelectSecret(q) ==
    /\ snd[q].pc = "selectIssued"
    /\ \E ok \in BOOLEAN :
         snd' = [snd EXCEPT ![q].pc = "selectDone",
                            ![q].err = ~ok,
                            ![q].found = ok /\ snd[q].id \in 1..Len(identities),
                            ![q].row = IF ok /\ snd[q].id \in 1..Len(identities)
                                       THEN identities[snd[q].id]
                                       ELSE NoIdentity]
    /\ UNCHANGED << pipelineVars, binning, redaction, run, identities, prov,
                    inquiries >>

\* The callback of db.get: an error or no row is answered 404, else the
\* verification is requested with row.recaptcha_secret_key.
SendOnRow(q) ==
    /\ snd[q].pc = "selectDone"
    /\ IF snd[q].err \/ ~snd[q].found
       THEN snd' = [snd EXCEPT ![q].pc = "done",
                               ![q].resp = ContactResp(404, "error", 0),
                               ![q].sends = @ + 1]
       ELSE snd' = [snd EXCEPT ![q].pc = "awaitCaptcha",
                               ![q].verifiedWith =
                                   snd[q].row.recaptcha_secret_key]
    /\ UNCHANGED << pipelineVars, binning, redaction, run, identities, prov,
                    inquiries >>

\* A variant that dispatches on success alone, whatever the score.
SendCaptchaAnyScore(q) ==
    /\ snd[q].pc = "awaitCaptcha"
    /\ \E rejected \in BOOLEAN, success \in BOOLEAN, score \in CaptchaScores :
         IF rejected
         THEN /\ snd' = [snd EXCEPT ![q].pc = "threw"]
              /\ UNCHANGED inquiries
         ELSE IF success
         THEN /\ snd' = [snd EXCEPT ![q].pc = "awaitMail",
                                    ![q].success = success,
                                    ![q].score = score]
              /\ inquiries' = Append(inquiries,
                                     [to |-> snd[q].row.raw_email, req |-> q])
         ELSE /\ snd' = [snd EXCEPT ![q].pc = "done",
                                    ![q].success = success,
                                    ![q].score = score,
                                    ![q].resp = ContactResp(403, "error", 0),
                                    ![q].sends = @ + 1]
              /\ UNCHANGED inquiries
    /\ UNCHANGED << pipelineVars, binning, redaction, run, identities, prov >>

\* The verification has settled.  A rejected request throws out of the
\* async callback, which has no try around it: nothing is answered.  A
\* verdict with success and a score of at least 0.5 calls
\* sendInquiry(researcherEmail, ...); any other verdict is answered 403.
SendCaptcha(q) ==
    /\ snd[q].pc = "awaitCaptcha"
    /\ \E rejected \in BOOLEAN, success \in BOOLEAN, score \in CaptchaScores :
         IF rejected
         THEN /\ snd' = [snd EXCEPT ![q].pc = "threw"]
              /\ UNCHANGED inquiries
         ELSE IF success /\ score >= MinScoreTenths
         THEN /\ snd' = [snd EXCEPT ![q].pc = "awaitMail",
                                    ![q].success = success,
                                    ![q].score = score]
              /\ inquiries' = Append(inquiries,
                                     [to |-> snd[q].row.raw_email, req |-> q])
         ELSE /\ snd' = [snd EXCEPT ![q].pc = "done",
                                    ![q].success = success,
                                    ![q].score = score,
                                    ![q].resp = ContactResp(403, "error", 0),
                                    ![q].sends = @ + 1]
              /\ UNCHANGED inquiries
    /\ UNCHANGED << pipelineVars, binning, redaction, run, identities, prov >>

\* sendInquiry has settled: res.json({ success: true, ... }), or 500 from
\* the catch block around it.
SendMailSettled(q) ==
    /\ snd[q].pc = "awaitMail"
    /\ \E ok \in BOOLEAN :
         snd' = [snd EXCEPT ![q].pc = "done",
                            ![q].resp = IF ok THEN ContactResp(200, "sent", 0)
                                        ELSE ContactResp(500, "error", 0),
                            ![q].sends = @ + 1]
    /\ UNCHANGED << pipelineVars, binning, redaction, run, identities, prov,
                    inquiries >>

InitContact ==
    /\ ServerAtRest
    /\ binning = NoBinning
    /\ redaction = NoRedaction
    /\ run = NoRun

NextContact ==
    \/ \E p \in ProvRequests : ProvisionReceive(p)
    \/ \E p \in ProvRequests : ProvisionCaptcha(p)
    \/ \E p \in ProvRequests : DbSelectIdentity(p)
    \/ \E p \in ProvRequests : ProvisionOnRow(p)
    \/ \E p \in ProvRequests : DbInsertIdentity(p)
    \/ \E p \in ProvRequests : ProvisionOnInsert(p)
    \/ \E q \in SendRequests : SendReceive(q)
    \/ \E q \in SendRequests : DbSelectSecret(q)
    \/ \E q \in SendRequests : SendOnRow(q)
    \/ \E q \in SendRequests : SendCaptcha(q)
    \/ \E q \in SendRequests : SendMailSettled(q)

SpecContact == InitContact /\ [][NextContact]_vars

(* ------------------------------ claims ---------------------------------- *)

\* The ids of the stored rows written by request r.
IdsOf(r) == { id \in 1..Len(owner) : owner[id] = r }

\* The stream of r was read to its 'end' event.
StreamCompleted(r) ==
    pc[r] \in {"awaitInsert", "done", "threw"} /\ file[r] # "absent"

\* b2 is b with exactly one bucket incremented by exactly 1.
OneBucketIncremented(b, b2) ==
    \E i \in 1..NumBins :
        /\ b2[i] = b[i] + 1
        /\ \A j \in 1..NumBins : j # i => b2[j] = b[j]

\* C1: in every ingestion run of either handler the sum of the 11 counters
\* equals the number of rows delivered so far (hence at stream completion);
\* a delivered row, also one without text, increments exactly one bucket by
\* exactly 1, and no other step changes the counters of a started run.
C1_SumEqualsRows ==
    /\ [](\A r \in Requests : SumSeq(bins[r]) = BagCardinality(rows[r]))
    /\ [][\A r \in Requests :
            /\ bins[r] # <<>> /\ bins'[r] # bins[r]
                 => /\ BagCardinality(rows'[r]) = BagCardinality(rows[r]) + 1
                    /\ OneBucketIncremented(bins[r], bins'[r])
            /\ BagCardinality(rows'[r]) = BagCardinality(rows[r]) + 1
                 => OneBucketIncremented(bins[r], bins'[r])]_vars

\* C1 witness: a run whose stream completed after two rows in the same
\* bucket, one of them without text.
C1_Witness ==
    \E r \in Requests :
        /\ pc[r] = "awaitInsert"
        /\ BagCardinality(rows[r]) = 2
        /\ CopiesIn([hasText |-> FALSE, compound |-> 0], rows[r]) = 2
        /\ bins[r][6] = 2

\* C2: a row exists in the store, or an INSERT was issued, only for a run
\* whose stream reached its 'end' event; a run whose stream failed or has
\* not ended has written nothing, and every stored row holds the histogram
\* of all rows of its run.
C2_AllOrNothing ==
    /\ \A r \in Requests :
           (ins[r] # "none" \/ IdsOf(r) # {} \/ insertId[r] # 0)
               => StreamCompleted(r)
    /\ \A id \in 1..Len(store) : store[id].bins = Hist(rows[owner[id]])

\* C2 witness: a stream failed after it delivered rows, while the other run
\* was past its insert.
C2_Witness ==
    \E r, q \in Requests :
        /\ pc[r] = "streamError" /\ BagCardinality(rows[r]) > 0
        /\ ins[q] = "ok"

\* C3: no run performs more than one insert, and a run whose stream
\* completed and whose INSERT succeeded has performed exactly one.
C3_OneInsertPerRun ==
    \A r \in Requests :
        /\ Cardinality(IdsOf(r)) <= 1
        /\ ins[r] = "ok" => Cardinality(IdsOf(r)) = 1

\* C3 witness: both runs have finished after a successful insert.
C3_Witness ==
    \A r \in Requests : pc[r] = "done" /\ ins[r] = "ok"

\* C4: a run whose stream failed has received a 5xx response with a
\* message.
C4_StreamFailureAnswered ==
    \A r \in Requests :
        pc[r] = "streamError"
            => resp[r].status \in 500..599 /\ resp[r].error # ""

\* C5: once the 'end' callback of a run has finished after a failed INSERT,
\* the caller has an explicit failure response without id.
C5_InsertFailureAnswered ==
    \A r \in Requests :
        (ins[r] = "err" /\ pc[r] \in {"done", "threw"})
            => /\ resp[r].status \in 500..599
               /\ ~resp[r].success
               /\ resp[r].id = 0
               /\ resp[r].error # ""

\* C6: every started run counts its own rows only; the id a caller gets is
\* the id of the row its own run wrote, that row and the returned bins are
\* the histogram of the run's own file, and two callers get distinct ids.
C6_NoCrossContamination ==
    /\ \A r \in Requests : bins[r] # <<>> => bins[r] = Hist(rows[r])
    /\ \A r \in Requests :
           resp[r].success
               => /\ IdsOf(r) = {resp[r].id}
                  /\ store[resp[r].id].bins = Hist(rows[r])
                  /\ resp[r].bins = Hist(rows[r])
    /\ \A r, q \in Requests :
           (r # q /\ resp[r].success /\ resp[q].success)
               => resp[r].id # resp[q].id

\* C6 witness: two runs over different files, one of them of full length,
\* have both been answered with success.
C6_Witness ==
    \E r, q \in Requests :
        /\ r # q
        /\ resp[r].success /\ resp[q].success
        /\ Hist(rows[r]) # Hist(rows[q])
        /\ BagCardinality(rows[r]) = MaxRows /\ BagCardinality(rows[q]) > 0

\* A display step answered the request for id.
Displayed(id) == disp' # disp /\ disp'.id = id

\* C7: a display of the id returned by a successful ingestion, when its
\* query succeeds, returns the row whose project_title is the title of that
\* ingestion and whose bucket columns are the returned bins in order; and
\* no step changes or removes a row of the store.
C7_RoundTrip ==
    /\ [][\A r \in Requests :
            (resp[r].success /\ Displayed(resp[r].id)
                  /\ disp'.outcome \in {"row", "notfound"})
                => /\ disp'.outcome = "row"
                   /\ disp'.status = 200
                   /\ disp'.row.id = resp[r].id
                   /\ disp'.row.project_title = title[r]
                   /\ disp'.row.bins = resp[r].bins]_vars
    /\ [][\A id \in 1..Len(store) :
            id <= Len(store') /\ store'[id] = store[id]]_vars

\* C7 witness: a display returned the row of a successful ingestion with a
\* supplied title and at least one counted row, after the other ingestion
\* had written its row too.
C7_Witness ==
    \E r \in Requests :
        /\ resp[r].success /\ resp[r].id = disp.id
        /\ disp.outcome = "row"
        /\ disp.row.project_title = "Q3"
        /\ SumSeq(disp.row.bins) > 0
        /\ Len(store) = Cardinality(Requests)

\* C8: a display of an id that resolves to no row is answered 404 without
\* any record whenever its query succeeds, and never with status 200; a
\* display whose query fails is never answered 404.
C8_NotFound ==
    /\ [][\A id \in DisplayIds :
            (Displayed(id) /\ id \notin 1..Len(store))
                => /\ disp'.status # 200
                   /\ disp'.row = NoRow
                   /\ disp'.outcome \in {"notfound", "error", "noresponse"}]_vars
    /\ [](/\ disp.outcome = "notfound" => disp.status = 404
          /\ disp.outcome \in {"error", "noresponse"} => disp.status # 404
          /\ disp.status = 404 => disp.row = NoRow)

\* C8 witness: a display of an unknown id was answered 404 while the store
\* held a row.
C8_Witness ==
    /\ disp.outcome = "notfound"
    /\ disp.status = 404
    /\ Len(store) > 0
    /\ disp.id > Len(store)

\* C9: a request without a file that was handled has a 4xx response, no
\* stream was opened for it and no insert was issued.
C9_NoFileRejected ==
    \A r \in Requests :
        (file[r] = "absent" /\ pc[r] # "new")
            => /\ resp[r].status \in 400..499
               /\ rows[r] = EmptyBag
               /\ ins[r] = "none"

\* C10 as stated: once the 'end' callback of a run has finished after a
\* successful insert, the temporary file of the run is removed.
C10_RemovedAfterInsert ==
    \A r \in Requests :
        (ins[r] = "ok" /\ pc[r] \in {"done", "threw"})
            => file[r] = "removed"

\* C10 amended: the temporary file is removed only by the 'end' callback
\* after stream completion, a successful insert and the success response;
\* when that callback has finished, the file is removed if unlinkSync
\* returned and still present if unlinkSync threw.
C10_RemovalAfterInsertOnly ==
    \A r \in Requests :
        /\ file[r] = "removed"
             => /\ StreamCompleted(r)
                /\ ins[r] = "ok"
                /\ resp[r].success
                /\ pc[r] = "done"
        /\ (ins[r] = "ok" /\ pc[r] = "done") => file[r] = "removed"
        /\ (ins[r] = "ok" /\ pc[r] = "threw") => file[r] = "present"

\* C10 witness: one run has removed its file, the other has finished with
\* an exception of unlinkSync.
C10_Witness ==
    \E r, q \in Requests :
        /\ file[r] = "removed"
        /\ ins[q] = "ok" /\ pc[q] = "threw" /\ file[q] = "present"

\* C11: for every score in [-1, 1] the bucket index
\* min(10, max(0, round((s + 1) * 5))) is an integer in [0, 10]; the score
\* -1.0 falls in bucket 0, 1.0 in bucket 10 and 0.0 in bucket 5.
C11_BinIndexInRange ==
    binning.pc = "binned"
        => /\ binning.score \in (0 - ScoreUnit)..ScoreUnit
                => binning.binIndex \in 0..10
           /\ binning.score = 0 - ScoreUnit => binning.binIndex = 0
           /\ binning.score = ScoreUnit => binning.binIndex = 10
           /\ binning.score = 0 => binning.binIndex = 5

\* C11 witness: the score 1.0 was put in bucket 10.
C11_Witness ==
    /\ binning.pc = "binned"
    /\ binning.score = ScoreUnit
    /\ binning.binIndex = 10
    /\ binning.bins[11] = 1

\* The number of the scores that fall in bucket i.
RowsInBucket(scores, i) ==
    Cardinality({ j \in 1..Len(scores) : binIndex(scores[j]) = i })

\* C12: the histogram the 'end' callback hands to the store is the
\* per-bucket count of the rows of the file: for every i in 0..10 entry i is
\* the number of rows whose score falls in bucket i, in whatever order the
\* rows came; three rows scored 0.8, 0.0 and -0.8, in any order, give 1 at
\* the indices 9, 5 and 1 and 0 elsewhere.
C12_HistogramIsBucketCount ==
    run.pc = "ended"
        => /\ \A i \in 0..10 :
                run.params.bins[i + 1] = RowsInBucket(run.scores, i)
           /\ (/\ Len(run.scores) = 3
               /\ { run.scores[j] : j \in 1..3 } = {8000, 0, 0 - 8000})
                => run.params.bins = << 0, 1, 0, 0, 0, 1, 0, 0, 0, 1, 0 >>

\* C12 witness: a file of three rows scored -0.8, 0.0 and 0.8, in that
\* order, was read to its end.
C12_Witness ==
    /\ run.pc = "ended"
    /\ run.scores = << 0 - 8000, 0, 8000 >>
    /\ run.params.bins = << 0, 1, 0, 0, 0, 1, 0, 0, 0, 1, 0 >>

\* The row in the hands of the callback has no column of the configured
\* name, or only empty values under it.
TextMissing ==
    /\ run.held # << >>
    /\ \A i \in 1..Len(run.held[1]) :
           toLowerCase(run.held[1][i].k) = run.postCol
               => run.held[1][i].v = << >>

\* C13: for a row that lacks the configured text column, or whose value in
\* it is empty, the text resolves to the empty string, and analyzeText
\* returns score 0 without a call of the analyzer.
C13_MissingTextIsEmpty ==
    (run.pc \in {"selected", "scored"} /\ TextMissing)
        => /\ run.text = Str(<< >>)
           /\ run.pc = "scored" => run.score = 0 /\ run.vaderCalls = << >>

\* The spellings of one column name.
CaseVariants ==
    { { << "p", "o", "s", "t" >>, << "P", "o", "s", "t" >>,
        << "P", "O", "S", "T" >>, << "p", "O", "s", "T" >> },
      { << "t", "e", "x", "t" >>, << "T", "e", "x", "t" >> } }

\* The column name the request asks for, 'post' when it names none.
Requested ==
    IF run.post_column = Undefined THEN << "p", "o", "s", "t" >>
    ELSE run.post_column.chars

\* C14: whatever the spelling of the header and of the requested
\* post_column (by default "post") in upper and lower case, the text the
\* callback selects is the value of the row in that column, character for
\* character.
C14_CaseInsensitiveLookup ==
    run.pc = "selected"
        => \A V \in CaseVariants :
               Requested \in V
                   => LET row == run.held[1]
                          cols == { i \in 1..Len(row) : row[i].k \in V }
                      IN  cols # {} => run.text = Str(row[MaxOf(cols)].v)

\* C14 witness: the request asked for "POST", the header was "pOsT" and the
\* value "Hi" was selected.
C14_Witness ==
    /\ run.pc = "selected"
    /\ run.post_column = Str(<< "P", "O", "S", "T" >>)
    /\ run.held = << << [k |-> << "p", "O", "s", "T" >>,
                         v |-> << "H", "i" >>] >> >>
    /\ run.text = Str(<< "H", "i" >>)

\* C15: the analyzer is called only after the redaction of the row's text,
\* once per row, and the text it is handed is the output of that redaction:
\* it holds no address and no phone number, and differs from the raw text
\* whenever the raw text holds one.
C15_RedactionBeforeScoring ==
    /\ [][(run'.vaderCalls # run.vaderCalls /\ run'.vaderCalls # << >>)
            => /\ run.pc = "redacted"
               /\ run'.vaderCalls = << redacted(run.text.chars) >>]_vars
    /\ [](run.pc # "idle" /\ run.vaderCalls # << >>
            => /\ Len(run.vaderCalls) = 1
               /\ ~HasPII(run.vaderCalls[1])
               /\ HasPII(run.text.chars)
                    => run.vaderCalls[1] # run.text.chars)

\* C15 witness: the analyzer was handed "[EMAIL]" for a row whose text is an
\* address.
C15_Witness ==
    /\ run.pc = "scored"
    /\ run.text = Str(<< "a", "@", "b", ".", "c", "o" >>)
    /\ run.vaderCalls = << EmailMark >>

\* A text holds the mark at some position.
HasMark(t, mark) ==
    \E i \in 1..Len(t) :
        i + Len(mark) - 1 <= Len(t) /\ SubSeq(t, i, i + Len(mark) - 1) = mark

\* C16: the redaction of analyzeText (email replacement, then phone
\* replacement) is idempotent: applied to its own output it changes
\* nothing, redact(redact(x)) = redact(x).
C16_RedactionIdempotent ==
    redaction.pc = "twice" => redaction.twice = redaction.once

\* C16 witness: a text with an address and a phone number was redacted
\* twice, and the first redaction replaced both.
C16_Witness ==
    /\ redaction.pc = "twice"
    /\ redaction.once # redaction.text
    /\ HasMark(redaction.once, EmailMark)
    /\ HasMark(redaction.once, PhoneMark)
    /\ Len(redaction.once) > Len(EmailMark) + Len(PhoneMark)

\* C17: the parameters of the INSERT are the project title and the 11
\* bucket counts and nothing else; they are determined by the title of the
\* request and by the number of rows in each bucket, so two runs with the
\* same title and the same bucket counts store the same record whatever
\* their texts were.
C17_OnlyTitleAndCounts ==
    run.pc = "ended"
        => /\ DOMAIN run.params = {"project_title", "bins"}
           /\ run.params.project_title =
                 (IF run.chart_title = "" THEN "New Analysis"
                  ELSE run.chart_title)
           /\ DOMAIN run.params.bins = 1..NumBins
           /\ \A i \in 1..NumBins :
                 run.params.bins[i] = RowsInBucket(run.scores, i - 1)

\* C17 witness: a run with a supplied title that read an address or a phone
\* number in its rows has built the parameters of its INSERT.
C17_Witness ==
    /\ run.pc = "ended"
    /\ run.piiSeen
    /\ Len(run.scores) >= 2
    /\ run.params.project_title = "Q3"

\* C18: whatever the number of rows read, the run keeps the counter array
\* of 11 entries, holds at most one row, and holds no row and no text of a
\* row between two callbacks.
C18_BoundedWorkingSet ==
    run.pc \notin {"idle", "new"}
        => /\ Len(run.bins) = NumBins
           /\ Len(run.held) <= 1
           /\ run.pc \in {"streaming", "ended"}
                => /\ run.held = << >>
                   /\ run.text = Undefined
                   /\ run.redacted = << >>
                   /\ run.vaderCalls = << >>

\* C18 witness: the callback holds its one row after two rows were counted.
C18_Witness ==
    /\ run.pc = "selected"
    /\ Len(run.scores) >= 2
    /\ Len(run.held) = 1
    /\ SumSeq(run.bins) = Len(run.scores)

\* C19: when the removal of the temporary file fails after a successful
\* insert, the caller has the one success response, no further response was
\* sent or attempted for the request, and the row of the run is in the
\* store as it was returned.
C19_CleanupFailureNotEscalated ==
    \A r \in Requests :
        (ins[r] = "ok" /\ pc[r] = "threw")
            => /\ resp[r].success
               /\ sends[r] = 1
               /\ IdsOf(r) = {resp[r].id}
               /\ store[resp[r].id].bins = resp[r].bins

\* C20: the bucket formula is total and clamps: a score above 1 falls in
\* bucket 10, a score below -1 in bucket 0, the index is in [0, 10] for
\* every score, the counter array has exactly 11 entries, none negative,
\* before and after the increment, and the increment is possible for every
\* score (the step does not fail).
C20_ClampsOutOfContract ==
    /\ Len(binning.bins) = NumBins
    /\ \A i \in 1..NumBins : binning.bins[i] \in Nat
    /\ binning.pc = "scored" => ENABLED BinScore
    /\ binning.pc = "binned"
         => /\ binning.binIndex \in 0..10
            /\ binning.score > ScoreUnit => binning.binIndex = 10
            /\ binning.score < 0 - ScoreUnit => binning.binIndex = 0
            /\ SumSeq(binning.bins) = 1
            /\ binning.bins[binning.binIndex + 1] = 1

\* C20 witness: the largest score above 1 was counted in bucket 10.
C20_Witness ==
    /\ binning.pc = "binned"
    /\ binning.score = MaxScore
    /\ binning.score > ScoreUnit
    /\ binning.binIndex = 10
    /\ binning.bins[11] = 1

\* C21: rounding at the bucket boundaries is round-half-up: a score whose
\* exact product (score + 1) * 5 is k + 0.5 for an integer k in 0..9 is
\* counted in bucket k + 1, and bucket i for 1 <= i <= 9 holds exactly the
\* scores with i - 0.5 <= (score + 1) * 5 < i + 0.5.
C21_RoundHalfUp ==
    binning.pc = "binned"
        => /\ \A k \in 0..9 :
                Scaled(binning.score) = k * ScoreUnit + ScoreUnit \div 2
                    => binning.binIndex = k + 1
           /\ \A i \in 1..9 :
                binning.binIndex = i
                    <=> /\ i * ScoreUnit - ScoreUnit \div 2
                             <= Scaled(binning.score)
                        /\ Scaled(binning.score)
                             < i * ScoreUnit + ScoreUnit \div 2

\* The 'end' callback of r called a method of db while db was unassigned:
\* it threw before any INSERT was issued, with the upload still in place.
UsedDbUnassigned(r) ==
    /\ handler = "router"
    /\ pc[r] = "threw"
    /\ file[r] = "present"
    /\ ins[r] = "none"

\* C22: in routes/sentiment.js no request handler uses db while it is still
\* unassigned, however the handler is scheduled relative to the un-awaited
\* setupDatabase call.
C22_DbAssignedBeforeUse ==
    \A r \in Requests : ~UsedDbUnassigned(r)


\* The provision requests answered 200 for the clean email e.
Provisioned(e) ==
    { p \in ProvRequests : prov[p].resp.status = 200 /\ prov[p].cleanEmail = e }

\* C23: provisioning keeps one identity per email: after any provision
\* requests, concurrent ones for the same email included, contact_identities
\* holds at most one row per lowercased, trimmed email, every successful
\* response for that email carries the id of that row, "new" is answered at
\* most once for it, and "existing" only when the row is there.
C23_OneIdentityPerEmail ==
    /\ \A i, j \in 1..Len(identities) :
         identities[i].email_hash = identities[j].email_hash => i = j
    /\ \A i \in 1..Len(identities) :
         \E email \in EmailSamples : identities[i].email_hash = cleanEmail(email)
    /\ \A p \in ProvRequests :
         prov[p].resp.status = 200
            => /\ prov[p].resp.id \in 1..Len(identities)
               /\ identities[prov[p].resp.id].email_hash = prov[p].cleanEmail
               /\ prov[p].resp.kind \in {"new", "existing"}
    /\ \A p1, p2 \in ProvRequests :
         /\ p1 \in Provisioned(prov[p2].cleanEmail)
         /\ p2 \in Provisioned(prov[p1].cleanEmail)
         => /\ prov[p1].resp.id = prov[p2].resp.id
            /\ prov[p1].resp.kind = "new" /\ prov[p2].resp.kind = "new"
                  => p1 = p2

\* Two requests for one email both found no row; the first INSERT was
\* answered "new" and the second failed on the UNIQUE constraint.
C23_Witness ==
    \E p1, p2 \in ProvRequests :
        /\ prov[p1].resp.kind = "new"
        /\ prov[p2].pc = "insertDone"
        /\ prov[p2].err
        /\ prov[p2].cleanEmail = prov[p1].cleanEmail
        /\ Len(identities) = 1

\* The mails handed to sendInquiry for the send request q.
InquiriesOf(q) == { k \in 1..Len(inquiries) : inquiries[k].req = q }

\* C24: /send calls sendInquiry only after the identity of the id was found
\* and the verification made with the secret key of that identity returned
\* success with a score of at least 0.5, and only to the email stored for
\* the id; a request with all fields whose id is unknown or whose
\* verification fails sends no mail.
C24_MailOnlyAfterVerification ==
    \A q \in SendRequests :
        /\ InquiriesOf(q) # {}
            => /\ snd[q].complete
               /\ snd[q].found
               /\ snd[q].id \in 1..Len(identities)
               /\ snd[q].verifiedWith =
                      identities[snd[q].id].recaptcha_secret_key
               /\ snd[q].success
               /\ snd[q].score >= MinScoreTenths
               /\ \A k \in InquiriesOf(q) :
                      inquiries[k].to = identities[snd[q].id].raw_email
        /\ snd[q].complete /\ snd[q].pc \in {"done", "threw"}
             /\ (\/ snd[q].id \notin 1..Len(identities)
                 \/ ~snd[q].found
                 \/ ~(snd[q].success /\ snd[q].score >= MinScoreTenths))
            => InquiriesOf(q) = {}

\* With two identities of different secret keys, a request for the second
\* was verified with the second key and its mail handed over and answered.
C24_Witness ==
    \E q \in SendRequests :
        /\ Len(identities) = 2
        /\ identities[1].recaptcha_secret_key # identities[2].recaptcha_secret_key
        /\ snd[q].id = 2
        /\ snd[q].verifiedWith = identities[2].recaptcha_secret_key
        /\ InquiriesOf(q) # {}
        /\ snd[q].resp.status = 200

\* C25: no handler answers a request twice: on every path through the
\* ingest, display, provision and send handlers, those on which a step after
\* the first response throws included, at most one res.json or
\* res.status(...).json is executed per request.
C25_SingleResponse ==
    /\ \A r \in Requests : sends[r] <= 1
    /\ \A p \in ProvRequests : prov[p].sends <= 1
    /\ \A q \in SendRequests : snd[q].sends <= 1
====
